---- MODULE Spec2Model ----
(***************************************************************************)
(* De Bruijn graph assembly (debruijn.py): k-mer extraction, graph         *)
(* construction, best-path selection, bubble and tip simplification and    *)
(* contig extraction.                                                      *)
(*                                                                         *)
(* A string is a sequence of one-character strings ("ACG" is               *)
(* <<"A","C","G">>).  A graph is a record [nodes, edges]: nodes is the     *)
(* sequence of nodes in insertion order (the order networkx iterates       *)
(* graph.nodes), edges the sequence of [u, v, weight] records in insertion *)
(* order (the order of the predecessor and successor dictionaries).        *)
(***************************************************************************)
EXTENDS Integers, Sequences, FiniteSets, TLC

VARIABLES
    reads,          \* the reads read_fastq yields, in file order
    kmer_size,      \* args.kmer_size
    kmers,          \* kmers[i]: what cut_kmer(reads[i], kmer_size) yielded
    kmer_dict,      \* build_kmer_dict's dictionary, in insertion order
    graph,          \* the DiGraph, mutated in place
    pc,             \* position of the program
    depth,          \* recursion depth of the running simplifier
    starting_nodes, \* parameter of solve_entry_tips
    ending_nodes,   \* parameter of solve_out_tips
    ancestor_node,  \* local of simplify_bubbles, as handed to solve_bubble
    noeud_n,        \* local of simplify_bubbles, as handed to solve_bubble
    call,           \* the latest select_best_path call: arguments and outcome
    called_on,      \* the graph the running simplifier was called on
    prev,           \* the two latest simplifier calls that returned
    contigs,        \* what get_contigs returned
    raised          \* the exception that ended the program, "" if none

vars == <<reads, kmer_size, kmers, kmer_dict, graph, pc, depth, starting_nodes,
          ending_nodes, ancestor_node, noeud_n, call, called_on, prev, contigs,
          raised>>

(***************************************************************************)
(* Bounds of the model.  MaxReads bounds the reads of a simplification     *)
(* run; MaxDepth stands for the interpreter's recursion limit; MaxKmerReads,*)
(* MaxLen and MaxK bound the reads, their length and the k-mer size of a   *)
(* k-mer run.                                                              *)
(***************************************************************************)
MaxReads == 6
MaxDepth == 3
MaxKmerReads == 2
MaxLen == 3
MaxK == 5

\* Python's None; no node is this string.
None == <<"None">>

EmptyGraph == [nodes |-> <<>>, edges |-> <<>>]

(***************************************************************************)
(* Python sequences.                                                       *)
(***************************************************************************)
Range(s) == {s[i] : i \in 1..Len(s)}

\* A slice bound as Python normalises it: negative counts from the end,
\* and the result is clamped to 0..L.
PyBound(i, L) ==
    IF i < 0 THEN (IF i + L < 0 THEN 0 ELSE i + L)
    ELSE (IF i > L THEN L ELSE i)

\* s[a:b]
PySlice(s, a, b) ==
    LET lo == PyBound(a, Len(s))
        hi == PyBound(b, Len(s))
    IN  IF lo >= hi THEN <<>> ELSE SubSeq(s, lo + 1, hi)

\* s[a:]
PyFrom(s, a) == PySlice(s, a, Len(s))

\* del s[i]
DelAt(s, i) == SubSeq(s, 1, i - 1) \o SubSeq(s, i + 1, Len(s))

RECURSIVE Flatten(_)
Flatten(ss) == IF ss = <<>> THEN <<>> ELSE Head(ss) \o Flatten(Tail(ss))

(***************************************************************************)
(* cut_kmer, build_kmer_dict, build_graph.                                 *)
(***************************************************************************)
\* for r,_ in enumerate(read[:len(read) - kmer_size + 1]): yield read[r:r+kmer_size]
cut_kmer(read, k) ==
    LET prefix == PySlice(read, 0, Len(read) - k + 1)
    IN  [r \in 1..Len(prefix) |-> PySlice(read, r - 1, r - 1 + k)]

\* dict_kmer[kmer] += 1, or = 1 for a new key (appended: dicts keep insertion order)
CountKmer(d, kmer) ==
    IF \E i \in 1..Len(d) : d[i].kmer = kmer
    THEN [i \in 1..Len(d) |->
            IF d[i].kmer = kmer THEN [d[i] EXCEPT !.count = @ + 1] ELSE d[i]]
    ELSE Append(d, [kmer |-> kmer, count |-> 1])

RECURSIVE CountKmers(_, _)
CountKmers(d, ks) ==
    IF ks = <<>> THEN d ELSE CountKmers(CountKmer(d, Head(ks)), Tail(ks))

build_kmer_dict(rs, k) ==
    CountKmers(<<>>, Flatten([i \in 1..Len(rs) |-> cut_kmer(rs[i], k)]))

AddNode(ns, n) == IF n \in Range(ns) THEN ns ELSE Append(ns, n)

\* DiGraph.add_edge(u, v, weight=w): new nodes are appended, u first; an edge
\* that exists keeps its place and takes the new weight.
add_edge(G, u, v, w) ==
    [nodes |-> AddNode(AddNode(G.nodes, u), v),
     edges |-> IF \E i \in 1..Len(G.edges) : G.edges[i].u = u /\ G.edges[i].v = v
               THEN [i \in 1..Len(G.edges) |->
                       IF G.edges[i].u = u /\ G.edges[i].v = v
                       THEN [G.edges[i] EXCEPT !.weight = w] ELSE G.edges[i]]
               ELSE Append(G.edges, [u |-> u, v |-> v, weight |-> w])]

RECURSIVE AddKmers(_, _)
AddKmers(G, d) ==
    IF d = <<>> THEN G
    ELSE AddKmers(add_edge(G, PySlice(Head(d).kmer, 0, -1), PyFrom(Head(d).kmer, 1),
                           Head(d).count),
                  Tail(d))

build_graph(d) == AddKmers(EmptyGraph, d)

(***************************************************************************)
(* networkx primitives.                                                    *)
(***************************************************************************)
NodeSet(G) == Range(G.nodes)

\* list(graph.predecessors(n)), list(graph.successors(n))
predecessors(G, n) ==
    LET into == SelectSeq(G.edges, LAMBDA e : e.v = n)
    IN  [i \in 1..Len(into) |-> into[i].u]

successors(G, n) ==
    LET from == SelectSeq(G.edges, LAMBDA e : e.u = n)
    IN  [i \in 1..Len(from) |-> from[i].v]

\* graph.remove_nodes_from(ns): the nodes and every edge incident to them;
\* a node that is not in the graph is ignored.
remove_nodes_from(G, ns) ==
    [nodes |-> SelectSeq(G.nodes, LAMBDA n : n \notin ns),
     edges |-> SelectSeq(G.edges, LAMBDA e : e.u \notin ns /\ e.v \notin ns)]

\* the nodes reachable from a node of S (S included)
RECURSIVE Closure(_, _)
Closure(G, S) ==
    LET T == S \cup {G.edges[i].v : i \in {j \in 1..Len(G.edges) : G.edges[j].u \in S}}
    IN  IF T = S THEN S ELSE Closure(G, T)

\* nx.has_path(G, s, t) for s and t in G (it raises NodeNotFound otherwise)
has_path(G, s, t) == t \in Closure(G, {s})

\* nx.is_directed_acyclic_graph(G)
is_directed_acyclic_graph(G) ==
    \A n \in NodeSet(G) : n \notin Closure(G, Range(successors(G, n)))

\* nx.ancestors(G, n) with n added, as lowest_common_ancestor uses them
AncestorsOrSelf(G, n) == {a \in NodeSet(G) : has_path(G, a, n)}

\* What nx.lowest_common_ancestor(G, v, w) may return on an acyclic G: a common
\* ancestor none of whose successors is a common ancestor (which one depends
\* on set iteration order), or None when there is no common ancestor.
lowest_common_ancestor(G, v, w) ==
    LET common == AncestorsOrSelf(G, v) \cap AncestorsOrSelf(G, w)
        lowest == {a \in common : \A s \in Range(successors(G, a)) : s \notin common}
    IN  IF common = {} THEN {None} ELSE lowest

\* nx.all_simple_paths(G, s, t), s and t in G: depth-first, successors in
\* adjacency order, never through the target; nothing when s = t.
RECURSIVE SimplePathsFrom(_, _, _, _)
SimplePathsFrom(G, path, children, t) ==
    IF children = <<>> THEN <<>>
    ELSE LET c == Head(children)
             rest == SimplePathsFrom(G, path, Tail(children), t)
         IN  IF c \in Range(path) THEN rest
             ELSE IF c = t THEN <<Append(path, c)>> \o rest
             ELSE SimplePathsFrom(G, Append(path, c), successors(G, c), t) \o rest

all_simple_paths(G, s, t) ==
    IF s = t THEN <<>> ELSE SimplePathsFrom(G, <<s>>, successors(G, s), t)

(***************************************************************************)
(* statistics: a mean is kept exact, as <<sum, count>>.                    *)
(***************************************************************************)
RECURSIVE SumSeq(_)
SumSeq(s) == IF s = <<>> THEN 0 ELSE Head(s) + SumSeq(Tail(s))

RECURSIVE ProdSeq(_)
ProdSeq(s) == IF s = <<>> THEN 1 ELSE Head(s) * ProdSeq(Tail(s))

RatEq(a, b) == a[1] * b[2] = b[1] * a[2]
RatLess(a, b) == a[1] * b[2] < b[1] * a[2]

\* statistics.stdev(xs) > 0 for two or more values: the sample variance
\* (n * sum(x^2) - sum(x)^2) / (n * (n - 1)), over a common denominator
StdevPositive(xs) ==
    LET n == Len(xs)
        D == ProdSeq([i \in 1..n |-> xs[i][2]])
        y == [i \in 1..n |-> xs[i][1] * (D \div xs[i][2])]
    IN  n * SumSeq([i \in 1..n |-> y[i] * y[i]]) - SumSeq(y) * SumSeq(y) > 0

\* xs.index(max(xs)): the first position of a largest value
IndexOfMax(xs) ==
    CHOOSE i \in 1..Len(xs) :
        /\ \A j \in 1..Len(xs) : ~RatLess(xs[i], xs[j])
        /\ \A j \in 1..(i - 1) : RatLess(xs[j], xs[i])

\* xs.index(x) for an integer x: the first position of a value equal to x, 0 if none
IndexOfInt(xs, x) ==
    IF \E i \in 1..Len(xs) : RatEq(xs[i], <<x, 1>>)
    THEN CHOOSE i \in 1..Len(xs) :
            RatEq(xs[i], <<x, 1>>) /\ \A j \in 1..(i - 1) : ~RatEq(xs[j], <<x, 1>>)
    ELSE 0

\* random.seed(9001); random.randint(0, n): the generator's first output,
\* cut to the bits of n + 1, is 0 for every n below 15
randint_9001(n) == 0

(***************************************************************************)
(* path_average_weight, remove_paths, select_best_path.                    *)
(***************************************************************************)
\* statistics.mean of the weights of graph.subgraph(path).edges: every edge
\* of the graph between two nodes of the path
path_average_weight(G, path) ==
    LET inside == SelectSeq(G.edges, LAMBDA e : e.u \in Range(path) /\ e.v \in Range(path))
    IN  <<SumSeq([i \in 1..Len(inside) |-> inside[i].weight]), Len(inside)>>

\* the nodes remove_paths removes for one path
RemovedOfPath(path, delete_entry_node, delete_sink_node) ==
    IF delete_entry_node /\ delete_sink_node THEN Range(path)
    ELSE IF delete_entry_node THEN Range(PySlice(path, 0, -1))
    ELSE IF delete_sink_node THEN Range(PyFrom(path, 1))
    ELSE Range(PySlice(path, 1, -1))

remove_paths(G, path_list, delete_entry_node, delete_sink_node) ==
    remove_nodes_from(G, UNION {RemovedOfPath(path_list[i], delete_entry_node,
                                               delete_sink_node) : i \in 1..Len(path_list)})

\* The position select_best_path deletes from path_list (the path it keeps);
\* 0 when weight_avg_list.index raises ValueError.
KeptIndex(path_list, path_length, weight_avg_list) ==
    IF StdevPositive(weight_avg_list) THEN IndexOfMax(weight_avg_list)
    ELSE IF StdevPositive([i \in 1..Len(path_length) |-> <<path_length[i], 1>>])
         THEN IndexOfMax([i \in 1..Len(path_length) |-> <<path_length[i], 1>>])
         ELSE IndexOfInt(weight_avg_list, randint_9001(Len(path_list)))

\* select_best_path: [err, kept, graph]; err names the exception raised
\* (statistics.stdev needs two values), graph is the graph afterwards.
select_best_path(G, path_list, path_length, weight_avg_list, delete_entry_node, delete_sink_node) ==
    IF Len(weight_avg_list) < 2
    THEN [err |-> "StatisticsError", kept |-> 0, graph |-> G]
    ELSE LET k == KeptIndex(path_list, path_length, weight_avg_list)
         IN  IF k = 0 THEN [err |-> "ValueError", kept |-> 0, graph |-> G]
             ELSE [err |-> "", kept |-> k,
                   graph |-> remove_paths(G, DelAt(path_list, k),
                                          delete_entry_node, delete_sink_node)]

\* the record kept of a select_best_path call
CallRecord(G, path_list, path_length, weight_avg_list, de, ds, res) ==
    [graph |-> G, path_list |-> path_list, path_length |-> path_length,
     weight_avg_list |-> weight_avg_list, delete_entry_node |-> de,
     delete_sink_node |-> ds, err |-> res.err, kept |-> res.kept, result |-> res.graph]

NoCall == CallRecord(EmptyGraph, <<>>, <<>>, <<>>, FALSE, FALSE,
                     [err |-> "", kept |-> 0, graph |-> EmptyGraph])

(***************************************************************************)
(* get_starting_nodes, get_sink_nodes, get_contigs.                        *)
(***************************************************************************)
get_starting_nodes(G) == SelectSeq(G.nodes, LAMBDA n : Len(predecessors(G, n)) = 0)

get_sink_nodes(G) == SelectSeq(G.nodes, LAMBDA n : Len(successors(G, n)) = 0)

\* ExtendSeq taking the first letter of each node, kmer[0], for the last
RECURSIVE ExtendSeqFirstLetter(_, _)
ExtendSeqFirstLetter(seq, path) ==
    IF path = <<>> THEN seq
    ELSE ExtendSeqFirstLetter(seq \o PySlice(Head(path), 0, 1), Tail(path))

\* seq += path[0]; for kmer in path[1:]: seq += kmer[-1]
RECURSIVE ExtendSeq(_, _)
ExtendSeq(seq, path) ==
    IF path = <<>> THEN seq
    ELSE ExtendSeq(seq \o PyFrom(Head(path), -1), Tail(path))

\* the inner loop of get_contigs over the paths of one (start, end) pair:
\* seq is set to "" before the loop and carried from one path to the next
RECURSIVE ContigsOfPaths(_, _)
ContigsOfPaths(seq, paths) ==
    IF paths = <<>> THEN <<>>
    ELSE LET s == ExtendSeq(seq \o Head(paths)[1], Tail(Head(paths)))
         IN  <<(<<s, Len(s)>>)>> \o ContigsOfPaths(s, Tail(paths))

ContigsOfPair(G, start, end) ==
    IF has_path(G, start, end)
    THEN ContigsOfPaths(<<>>, all_simple_paths(G, start, end))
    ELSE <<>>

get_contigs(G, starts, ends) ==
    Flatten([i \in 1..Len(starts) |->
                Flatten([j \in 1..Len(ends) |-> ContigsOfPair(G, starts[i], ends[j])])])

(***************************************************************************)
(* solve_bubble and the scan of simplify_bubbles.                          *)
(***************************************************************************)
PathLengths(paths) == [i \in 1..Len(paths) |-> Len(paths[i])]

PathWeights(G, paths) == [i \in 1..Len(paths) |-> path_average_weight(G, paths[i])]

\* nx.all_simple_paths raises NodeNotFound for a source that is not a node
\* (None); otherwise select_best_path on every simple path, no flag set.
solve_bubble(G, ancestor, descendant) ==
    IF ancestor \notin NodeSet(G)
    THEN [err |-> "NodeNotFound", called |-> FALSE, call |-> NoCall, graph |-> G]
    ELSE LET paths == all_simple_paths(G, ancestor, descendant)
             res == select_best_path(G, paths, PathLengths(paths), PathWeights(G, paths),
                                     FALSE, FALSE)
         IN  [err |-> res.err, called |-> TRUE,
              call |-> CallRecord(G, paths, PathLengths(paths), PathWeights(G, paths),
                                  FALSE, FALSE, res),
              graph |-> res.graph]

\* The scan keeps, instead of ancestor_node, the pair of the latest
\* lowest_common_ancestor call: ancestor_node is that call's result.
\* for j in list_predecessors[c+1:] -- the break leaves this loop only
RECURSIVE ScanPairsFrom(_, _, _, _, _)
ScanPairsFrom(G, P, c, j, st) ==
    IF j > Len(P) THEN st
    ELSE LET asked == [st EXCEPT !.pair = <<P[c], P[j]>>]
         IN  IF lowest_common_ancestor(G, P[c], P[j]) # {None}
             THEN [asked EXCEPT !.bubble = TRUE]
             ELSE ScanPairsFrom(G, P, c, j + 1, asked)

\* for c,i in enumerate(list_predecessors)
RECURSIVE ScanPreds(_, _, _, _)
ScanPreds(G, P, c, st) ==
    IF c > Len(P) THEN st
    ELSE ScanPreds(G, P, c + 1, ScanPairsFrom(G, P, c, c + 1, st))

\* for n in graph.nodes; lowest_common_ancestor raises NetworkXError on a
\* graph with a cycle
RECURSIVE ScanNodes(_, _, _)
ScanNodes(G, i, st) ==
    IF i > Len(G.nodes) THEN st
    ELSE LET n == G.nodes[i]
             P == predecessors(G, n)
         IN  IF Len(P) > 1
             THEN IF ~is_directed_acyclic_graph(G)
                  THEN [st EXCEPT !.err = "NetworkXError"]
                  ELSE ScanNodes(G, i + 1, ScanPreds(G, P, 1, [st EXCEPT !.noeud_n = n]))
             ELSE IF st.bubble THEN st
             ELSE ScanNodes(G, i + 1, st)

BubbleScan(G) ==
    ScanNodes(G, 1, [bubble |-> FALSE, noeud_n |-> None, pair |-> <<None, None>>,
                     err |-> ""])

\* the values ancestor_node may hold after the scan
AncestorAfterScan(G, sc) == lowest_common_ancestor(G, sc.pair[1], sc.pair[2])

(***************************************************************************)
(* The scans of solve_entry_tips and solve_out_tips.                       *)
(***************************************************************************)
\* has_path answering False, instead of raising, for a node that is gone
has_path_never_raises(G, s, t) == FALSE

\* nx.has_path raises NodeNotFound when an end point is not in the graph
has_path_raises(G, s, t) == s \notin NodeSet(G) \/ t \notin NodeSet(G)

NoTips == [err |-> "", tips |-> FALSE, node |-> None, path_list |-> <<>>]

\* for start in starting_nodes (entry) / for end in ending_nodes (out):
\* path[0] of the simple paths between the two, when has_path
RECURSIVE TipPaths(_, _, _, _, _)
TipPaths(G, node, ends, entry, acc) ==
    IF ends = <<>> THEN acc
    ELSE LET s == IF entry THEN Head(ends) ELSE node
             t == IF entry THEN node ELSE Head(ends)
         IN  IF has_path_raises(G, s, t) THEN [acc EXCEPT !.err = "NodeNotFound"]
             ELSE IF has_path(G, s, t)
             THEN IF all_simple_paths(G, s, t) = <<>>
                  THEN [acc EXCEPT !.err = "IndexError"]
                  ELSE TipPaths(G, node, Tail(ends), entry,
                                [acc EXCEPT !.tips = TRUE,
                                            !.path_list = Append(@, all_simple_paths(G, s, t)[1])])
             ELSE TipPaths(G, node, Tail(ends), entry, acc)

\* for node in graph.nodes(): the first node with more than one predecessor
\* (entry) or successor (out) that has a path; tips is not bound when the
\* graph has no node
RECURSIVE TipNodes(_, _, _, _)
TipNodes(G, i, ends, entry) ==
    IF i > Len(G.nodes) THEN NoTips
    ELSE LET node == G.nodes[i]
             nb == IF entry THEN predecessors(G, node) ELSE successors(G, node)
             acc == IF Len(nb) > 1
                    THEN TipPaths(G, node, ends, entry, [NoTips EXCEPT !.node = node])
                    ELSE NoTips
         IN  IF acc.err # "" \/ acc.tips THEN acc ELSE TipNodes(G, i + 1, ends, entry)

TipScan(G, ends, entry) ==
    IF G.nodes = <<>> THEN [NoTips EXCEPT !.err = "UnboundLocalError"]
    ELSE TipNodes(G, 1, ends, entry)

\* select_best_path as solve_entry_tips (delete_entry_node=True) and
\* solve_out_tips (delete_sink_node=True) call it
solve_tip(G, sc, entry) ==
    LET res == select_best_path(G, sc.path_list, PathLengths(sc.path_list),
                                PathWeights(G, sc.path_list), entry, ~entry)
    IN  [err |-> res.err,
         call |-> CallRecord(G, sc.path_list, PathLengths(sc.path_list),
                             PathWeights(G, sc.path_list), entry, ~entry, res),
         graph |-> res.graph]

(***************************************************************************)
(* Inputs.                                                                 *)
(***************************************************************************)
\* the reads of the simplification runs: two-letter reads, in this order
ReadPool ==
    << <<"A","C">>, <<"A","T">>, <<"C","T">>, <<"G","T">>,
       <<"A","G">>, <<"C","C">>, <<"G","N">>, <<"N","C">> >>

\* the lists of n reads of the pool, from its entry lo on, in pool order
RECURSIVE PoolLists(_, _)
PoolLists(n, lo) ==
    IF n = 0 THEN {<<>>}
    ELSE UNION {{<<ReadPool[v]>> \o s : s \in PoolLists(n - 1, v)} : v \in lo..Len(ReadPool)}

ReadLists == UNION {PoolLists(n, 1) : n \in 0..MaxReads}

\* the reads of the k-mer runs: every string of at most MaxLen letters
Words == UNION {[1..n -> {"A", "C"}] : n \in 0..MaxLen}

WordLists == UNION {[1..n -> Words] : n \in 0..MaxKmerReads}

Simplifiers == {"simplify_bubbles", "solve_entry_tips", "solve_out_tips"}

InitRest ==
    /\ kmers = <<>>
    /\ kmer_dict = <<>>
    /\ graph = EmptyGraph
    /\ pc = "read"
    /\ depth = 0
    /\ starting_nodes = <<>>
    /\ ending_nodes = <<>>
    /\ ancestor_node = None
    /\ noeud_n = None
    /\ call = NoCall
    /\ called_on = EmptyGraph
    /\ prev = <<>>
    /\ contigs = <<>>
    /\ raised = ""

Init ==
    /\ reads \in ReadLists
    /\ kmer_size = 2
    /\ InitRest

InitKmer ==
    /\ reads \in WordLists
    /\ kmer_size \in 1..MaxK
    /\ InitRest

(***************************************************************************)
(* main: build_kmer_dict, build_graph.                                     *)
(***************************************************************************)
BuildKmerDict ==
    /\ pc = "read"
    /\ kmers' = [i \in 1..Len(reads) |-> cut_kmer(reads[i], kmer_size)]
    /\ kmer_dict' = build_kmer_dict(reads, kmer_size)
    /\ pc' = "dict"
    /\ UNCHANGED <<reads, kmer_size, graph, depth, starting_nodes, ending_nodes,
                   ancestor_node, noeud_n, call, called_on, prev, contigs, raised>>

BuildGraph ==
    /\ pc = "dict"
    /\ graph' = build_graph(kmer_dict)
    /\ pc' = "idle"
    /\ UNCHANGED <<reads, kmer_size, kmers, kmer_dict, depth, starting_nodes,
                   ending_nodes, ancestor_node, noeud_n, call, called_on, prev,
                   contigs, raised>>

\* contigs = get_contigs(graph, get_starting_nodes(graph), get_sink_nodes(graph))
GetContigs ==
    /\ pc = "idle"
    /\ contigs' = get_contigs(graph, get_starting_nodes(graph), get_sink_nodes(graph))
    /\ pc' = "done"
    /\ UNCHANGED <<reads, kmer_size, kmers, kmer_dict, graph, depth, starting_nodes,
                   ending_nodes, ancestor_node, noeud_n, call, called_on, prev, raised>>

(***************************************************************************)
(* The simplifiers.  A call of one of them on the graph as it is; every    *)
(* recursive invocation is one step.                                       *)
(***************************************************************************)
Running(f) == pc = f /\ raised = ""

\* the two latest simplifiers that returned, each with whether it changed the graph
Returned(f) ==
    LET r == [fn |-> f, changed |-> graph # called_on]
    IN  IF Len(prev) < 2 THEN Append(prev, r) ELSE <<prev[2], r>>

Begin(f) ==
    /\ pc = "idle"
    /\ pc' = f
    /\ depth' = 0
    /\ called_on' = graph
    /\ UNCHANGED <<reads, kmer_size, kmers, kmer_dict, graph, ancestor_node, noeud_n,
                   call, prev, contigs, raised>>

\* the locals of the call are gone when it has returned
Return(f) ==
    /\ pc' = "idle"
    /\ prev' = Returned(f)
    /\ depth' = 0
    /\ starting_nodes' = <<>>
    /\ ending_nodes' = <<>>
    /\ ancestor_node' = None
    /\ noeud_n' = None
    /\ call' = NoCall
    /\ UNCHANGED <<reads, kmer_size, kmers, kmer_dict, graph, called_on, contigs, raised>>

\* graph = simplify_bubbles(graph)
CallSimplifyBubbles ==
    /\ Begin("simplify_bubbles")
    /\ UNCHANGED <<starting_nodes, ending_nodes>>

\* graph = solve_entry_tips(graph, get_starting_nodes(graph))
CallSolveEntryTips ==
    /\ Begin("solve_entry_tips")
    /\ starting_nodes' = get_starting_nodes(graph)
    /\ UNCHANGED ending_nodes

\* graph = solve_out_tips(graph, get_sink_nodes(graph))
CallSolveOutTips ==
    /\ Begin("solve_out_tips")
    /\ ending_nodes' = get_sink_nodes(graph)
    /\ UNCHANGED starting_nodes

\* simplify_bubbles: the scan finds no bubble
BubbleReturn ==
    /\ Running("simplify_bubbles")
    /\ BubbleScan(graph).err = ""
    /\ ~BubbleScan(graph).bubble
    /\ Return("simplify_bubbles")

\* simplify_bubbles: lowest_common_ancestor raises during the scan
BubbleScanRaise ==
    /\ Running("simplify_bubbles")
    /\ BubbleScan(graph).err # ""
    /\ raised' = BubbleScan(graph).err
    /\ UNCHANGED <<reads, kmer_size, kmers, kmer_dict, graph, pc, depth, starting_nodes,
                   ending_nodes, ancestor_node, noeud_n, call, called_on, prev, contigs>>

\* simplify_bubbles: graph = simplify_bubbles(solve_bubble(graph, ancestor_node, noeud_n))
\* the recursive call fails beyond the interpreter's recursion limit
BubbleResolve ==
    /\ Running("simplify_bubbles")
    /\ BubbleScan(graph).err = ""
    /\ BubbleScan(graph).bubble
    /\ \E a \in AncestorAfterScan(graph, BubbleScan(graph)) :
         LET n == BubbleScan(graph).noeud_n
             res == solve_bubble(graph, a, n)
         IN  /\ ancestor_node' = a
             /\ noeud_n' = n
             /\ call' = IF res.called THEN res.call ELSE call
             /\ graph' = res.graph
             /\ raised' = IF res.err # "" THEN res.err
                          ELSE IF depth = MaxDepth THEN "RecursionError" ELSE ""
             /\ depth' = IF res.err = "" /\ depth < MaxDepth THEN depth + 1 ELSE depth
    /\ UNCHANGED <<reads, kmer_size, kmers, kmer_dict, pc, starting_nodes, ending_nodes,
                   called_on, prev, contigs>>

\* solve_entry_tips (entry) and solve_out_tips: the scan finds no tip
TipReturn(f, ends, entry) ==
    /\ Running(f)
    /\ TipScan(graph, ends, entry).err = ""
    /\ ~TipScan(graph, ends, entry).tips
    /\ Return(f)

\* has_path, path[0] or the unbound tips raises during the scan
TipScanRaise(f, ends, entry) ==
    /\ Running(f)
    /\ TipScan(graph, ends, entry).err # ""
    /\ raised' = TipScan(graph, ends, entry).err
    /\ UNCHANGED <<reads, kmer_size, kmers, kmer_dict, graph, pc, depth, starting_nodes,
                   ending_nodes, ancestor_node, noeud_n, call, called_on, prev, contigs>>

\* graph = select_best_path(...); graph = solve_entry_tips(graph, starting_nodes)
\* (the same list of nodes is handed to the recursive call)
TipResolve(f, ends, entry) ==
    /\ Running(f)
    /\ TipScan(graph, ends, entry).err = ""
    /\ TipScan(graph, ends, entry).tips
    /\ LET res == solve_tip(graph, TipScan(graph, ends, entry), entry)
       IN  /\ call' = res.call
           /\ graph' = res.graph
           /\ raised' = IF res.err # "" THEN res.err
                        ELSE IF depth = MaxDepth THEN "RecursionError" ELSE ""
           /\ depth' = IF res.err = "" /\ depth < MaxDepth THEN depth + 1 ELSE depth
    /\ UNCHANGED <<reads, kmer_size, kmers, kmer_dict, pc, starting_nodes, ending_nodes,
                   ancestor_node, noeud_n, called_on, prev, contigs>>

EntryReturn == TipReturn("solve_entry_tips", starting_nodes, TRUE)
EntryScanRaise == TipScanRaise("solve_entry_tips", starting_nodes, TRUE)
EntryResolve == TipResolve("solve_entry_tips", starting_nodes, TRUE)

OutReturn == TipReturn("solve_out_tips", ending_nodes, FALSE)
OutScanRaise == TipScanRaise("solve_out_tips", ending_nodes, FALSE)
OutResolve == TipResolve("solve_out_tips", ending_nodes, FALSE)

Next ==
    \/ BuildKmerDict
    \/ BuildGraph
    \/ GetContigs
    \/ CallSimplifyBubbles
    \/ BubbleReturn
    \/ BubbleScanRaise
    \/ BubbleResolve
    \/ CallSolveEntryTips
    \/ EntryReturn
    \/ EntryScanRaise
    \/ EntryResolve
    \/ CallSolveOutTips
    \/ OutReturn
    \/ OutScanRaise
    \/ OutResolve

Spec == Init /\ [][Next]_vars

NextKmer ==
    \/ BuildKmerDict
    \/ BuildGraph
    \/ GetContigs

SpecKmer == InitKmer /\ [][NextKmer]_vars

(***************************************************************************)
(* Properties of k-mer extraction, graph construction and the round trip   *)
(* (specification SpecKmer).                                               *)
(***************************************************************************)
Max(a, b) == IF a >= b THEN a ELSE b

\* the positions (read, offset) of the substrings of length kmer_size
KmerPositions ==
    {<<i, p>> \in (1..Len(reads)) \X (1..MaxLen + 1) : p + kmer_size - 1 <= Len(reads[i])}

KmerAt(ip) == SubSeq(reads[ip[1]], ip[2], ip[2] + kmer_size - 1)

DistinctKmers == {KmerAt(ip) : ip \in KmerPositions}

Occurrences(s) == Cardinality({ip \in KmerPositions : KmerAt(ip) = s})

\* C1: for every read S of length L, cut_kmer(S, k) yields exactly
\* max(0, L-k+1) strings, the i-th being the substring of S at position i,
\* each of length exactly k; nothing when k > L.
C1_CutKmerContract ==
    pc # "read" =>
        \A i \in 1..Len(reads) :
            /\ Len(kmers[i]) = Max(0, Len(reads[i]) - kmer_size + 1)
            /\ \A j \in 1..Len(kmers[i]) :
                 /\ Len(kmers[i][j]) = kmer_size
                 /\ kmers[i][j] = SubSeq(reads[i], j, j + kmer_size - 1)

\* C5: the built graph has exactly one edge per distinct k-mer of the reads,
\* from its (k-1)-prefix to its (k-1)-suffix, weighted with the number of
\* occurrences of the k-mer (at least 1); the nodes are exactly those
\* prefixes and suffixes.
C5_GraphOfKmers ==
    pc \in {"idle", "done"} =>
        /\ Len(graph.edges) = Cardinality(DistinctKmers)
        /\ \A s \in DistinctKmers :
             \E i \in 1..Len(graph.edges) :
                /\ graph.edges[i].u = SubSeq(s, 1, kmer_size - 1)
                /\ graph.edges[i].v = SubSeq(s, 2, kmer_size)
                /\ graph.edges[i].weight = Occurrences(s)
                /\ graph.edges[i].weight >= 1
        /\ NodeSet(graph) = {SubSeq(s, 1, kmer_size - 1) : s \in DistinctKmers}
                                \cup {SubSeq(s, 2, kmer_size) : s \in DistinctKmers}

\* every node has at most one direct predecessor and one direct successor
NonBranching(G) ==
    \A n \in NodeSet(G) : Len(predecessors(G, n)) <= 1 /\ Len(successors(G, n)) <= 1

SingleReadRoundTrip ==
    /\ pc = "done"
    /\ Len(reads) = 1
    /\ kmer_size <= Len(reads[1])
    /\ NonBranching(graph)

HasEdge(G, u, v) == \E i \in 1..Len(G.edges) : G.edges[i].u = u /\ G.edges[i].v = v

\* p is a path of G: its nodes are nodes of G, consecutive ones joined by an edge
IsPath(G, p) ==
    /\ Range(p) \subseteq NodeSet(G)
    /\ \A i \in 1..(Len(p) - 1) : HasEdge(G, p[i], p[i + 1])

AllEqual(xs) == \A i, j \in 1..Len(xs) : RatEq(xs[i], xs[j])

IsMax(xs, k) == \A j \in 1..Len(xs) : ~RatLess(xs[k], xs[j])

Ints(xs) == [i \in 1..Len(xs) |-> <<xs[i], 1>>]

\* C2: a select_best_path call with two or more candidates and no delete flag
\* leaves exactly one survivor, the candidate of maximum mean weight when the
\* weights differ, else of maximum length when the lengths differ; the
\* survivor is still a path of the graph and no other candidate is.
C2_OneSurvivor ==
    (/\ Len(call.path_list) >= 2
     /\ ~call.delete_entry_node /\ ~call.delete_sink_node
     /\ call.err = "")
    => /\ ~AllEqual(call.weight_avg_list) => IsMax(call.weight_avg_list, call.kept)
       /\ AllEqual(call.weight_avg_list) /\ ~AllEqual(Ints(call.path_length))
             => IsMax(Ints(call.path_length), call.kept)
       /\ IsPath(call.result, call.path_list[call.kept])
       /\ \A i \in 1..Len(call.path_list) :
             i # call.kept => ~IsPath(call.result, call.path_list[i])

\* C3: a select_best_path call with N >= 2 candidates tied on mean weight and
\* on length returns with exactly one candidate removed from the graph and
\* the other N-1 kept.
C3_FullTieRemovesOne ==
    (/\ Len(call.path_list) >= 2
     /\ AllEqual(call.weight_avg_list)
     /\ AllEqual(Ints(call.path_length)))
    => /\ call.err = ""
       /\ Cardinality({i \in 1..Len(call.path_list) :
                          ~IsPath(call.result, call.path_list[i])}) = 1

\* the contig of one path: the first node, then the last letter of each next node
RECURSIVE ContigOf(_)
ContigOf(path) ==
    IF Len(path) = 1 THEN path[1]
    ELSE ContigOf(SubSeq(path, 1, Len(path) - 1)) \o <<path[Len(path)][Len(path[Len(path)])]>>

\* one contig per simple path, by source, then sink, then path
ContigsExpected(G) ==
    LET starts == get_starting_nodes(G)
        ends == get_sink_nodes(G)
        of(a, b) == LET ps == IF has_path(G, a, b) THEN all_simple_paths(G, a, b) ELSE <<>>
                    IN  [i \in 1..Len(ps) |-> <<ContigOf(ps[i]), Len(ContigOf(ps[i]))>>]
    IN  Flatten([i \in 1..Len(starts) |-> Flatten([j \in 1..Len(ends) |-> of(starts[i], ends[j])])])

\* C4: get_contigs returns one (sequence, length) pair per simple path of
\* every connected (source, sink) pair, in order, each sequence built from
\* that one path alone.
C4_ContigPerPath ==
    pc = "done" => contigs = ContigsExpected(graph)

\* two direct predecessors of n have a common ancestor
BubbleAt(G, n) ==
    \E i, j \in Range(predecessors(G, n)) :
        i # j /\ AncestorsOrSelf(G, i) \cap AncestorsOrSelf(G, j) # {}

NoBubble(G) == \A n \in NodeSet(G) : ~BubbleAt(G, n)

NoEntryTip(G) ==
    \A n \in NodeSet(G) :
        Len(predecessors(G, n)) > 1
            => \A s \in Range(get_starting_nodes(G)) : ~has_path(G, s, n)

NoOutTip(G) ==
    \A n \in NodeSet(G) :
        Len(successors(G, n)) > 1
            => \A t \in Range(get_sink_nodes(G)) : ~has_path(G, n, t)

\* the simplifier f runs on the graph a call of f has just returned
Rerun(f) == pc = f /\ prev # <<>> /\ prev[Len(prev)].fn = f

\* C7: running a simplifier again on the graph it returned (with that
\* graph's sources or sinks) raises nothing and leaves the graph unchanged;
\* a simplifier leaves unchanged a graph with no bubble and no tip.
C7_Idempotent ==
    \A f \in Simplifiers :
        /\ Rerun(f) => graph = called_on /\ raised = ""
        /\ pc = f /\ NoBubble(called_on) /\ NoEntryTip(called_on) /\ NoOutTip(called_on)
              => graph = called_on

\* a simplifier changed the graph, then ran again and returned
C7_Witness ==
    /\ pc = "idle"
    /\ Len(prev) = 2
    /\ prev[1].fn = prev[2].fn
    /\ prev[1].changed
    /\ graph = called_on

\* the first node, in scan order, with a bubble (None if none)
FirstBubbleNode(G) ==
    IF \E i \in 1..Len(G.nodes) : BubbleAt(G, G.nodes[i])
    THEN G.nodes[CHOOSE i \in 1..Len(G.nodes) :
                    BubbleAt(G, G.nodes[i]) /\ \A j \in 1..(i - 1) : ~BubbleAt(G, G.nodes[j])]
    ELSE None

\* C8: when a scan of simplify_bubbles resolves a bubble, the node handed to
\* solve_bubble is the first node in scan order with a bubble, and the
\* ancestor handed is a lowest common ancestor, not None, of two direct
\* predecessors of that node.
C8_HandedToSolveBubble ==
    [][(/\ Running("simplify_bubbles")
        /\ BubbleScan(graph).err = ""
        /\ BubbleScan(graph).bubble)
       => /\ noeud_n' = FirstBubbleNode(graph)
          /\ ancestor_node' # None
          /\ \E i, j \in Range(predecessors(graph, noeud_n')) :
                i # j /\ ancestor_node' \in lowest_common_ancestor(graph, i, j)]_vars

\* C9: every round of a simplifier that resolves a node and scans again has
\* removed at least one node.
C9_RoundRemovesNode ==
    [][depth' = depth + 1 => Len(graph'.nodes) < Len(graph.nodes)]_vars

\* C10: in every scan round in which solve_entry_tips (solve_out_tips)
\* consults its source (sink) nodes, they are exactly the nodes of the
\* current graph with no direct predecessor (successor).
C10_CurrentSources ==
    /\ (/\ Running("solve_entry_tips")
        /\ \E n \in NodeSet(graph) : Len(predecessors(graph, n)) > 1)
       => starting_nodes = get_starting_nodes(graph)
    /\ (/\ Running("solve_out_tips")
        /\ \E n \in NodeSet(graph) : Len(successors(graph, n)) > 1)
       => ending_nodes = get_sink_nodes(graph)

====
